---- MODULE Spec2Model ----
(***************************************************************************)
(* CarromMaster: the turn state machine and turn outcome resolver of       *)
(* GameScene (src/src/scenes/Boot.ts, lines 98-1275).                      *)
(*                                                                         *)
(* The physics collaborator is abstracted: a frame of update() is given    *)
(* whether every body is below the stop threshold, whether the striker is  *)
(* inside a pocket zone and which unpocketed pieces are inside one.        *)
(* Positions and velocities themselves are not state of the model.         *)
(* The peer link is NetworkManager (src/unnamed/part_005) and the shot     *)
(* planner is CarromAI (src/unnamed/part_000).                             *)
(***************************************************************************)
EXTENDS Integers, Sequences, FiniteSets

----------------------------------------------------------------------------
(* Bounds *)

\* pieces of the two rings created at set-up (the game creates 6 + 12)
RingPieces == 3
\* pocketing events one per-strike accumulator can hold
MaxPocketsPerStrike == 2
\* pieces that can enter a pocket zone during one frame
MaxPocketsPerFrame == 1
\* delayed calls of the AI that may be pending at once
MaxTimers == 2
\* evaluations of shots at own pieces one call of the planner makes
MaxShots == 4
\* messages in flight to the peer, and from it
MaxInFlight == 2
\* strikes launched on the two ends of a connection together
MaxStrikes == 2

----------------------------------------------------------------------------
(* Program constants *)

\* queen bonus added when the queen is covered
QueenBonus == 3
\* points deducted by the striker-foul penalty
FoulPenalty == 1

\* entries of INITIAL_POSITIONS.innerRing and INITIAL_POSITIONS.outerRing
InnerRingSize == 6
OuterRingSize == 12

Colors == {"white", "black"}
Null == "null"

\* pieces[] in creation order: the queen first, then the rings, which
\* alternate white, black, white, ...
NumPieces == RingPieces + 1
Pieces == 1..NumPieces
Queen == 1

\* variant: the inner ring is white and the outer ring black
PieceTypeByRing(i) ==
  IF i = Queen THEN "queen" ELSE IF i <= 1 + InnerRingSize THEN "white" ELSE "black"

PieceType(i) == IF i = Queen THEN "queen" ELSE IF i % 2 = 0 THEN "white" ELSE "black"

\* the pieces createPieces makes from the full INITIAL_POSITIONS; the model
\* plays with the first NumPieces of them
CreatedPieces == 1..(1 + InnerRingSize + OuterRingSize)
CreatedOf(color) == {i \in CreatedPieces : PieceType(i) = color}

Other(p) == IF p = "white" THEN "black" ELSE "white"
Max(a, b) == IF a >= b THEN a ELSE b

----------------------------------------------------------------------------
VARIABLES
  gameMode,        \* 'cpu' | 'multiplayer-host' | 'multiplayer-guest'
  myColor,
  scene,           \* the running scene: "Game", "GameOver" or "Menu"
  pocketed,        \* pieces[i].gameData.pocketed
  currentPlayer,
  whiteScore,
  blackScore,
  queenPocketed,
  queenCovered,
  queenPocketedBy,
  needsCover,
  isStrikerMoving,
  isOpponentTurn,
  isAiming,
  turnResult,
  aiThinking,      \* pending delayedCall(aiThinkingDelay, executeAITurn)
  aiLaunching,     \* pending delayedCall(300, <apply the AI's velocity>)
  gameOverData,    \* the data passed to scene.start('GameOver')
  resolved,        \* history: the strike resolution the last step made, if any
  unpocketed,      \* history, kept by the specifications that start it: a
                   \* piece whose pocketed flag was cleared, followed from
                   \* then on (any one such piece, or none yet)
  connection,      \* NetworkManager.connection: "open" or "closed"
  menuTimer,       \* pending delayedCall(2000, scene.start('Menu'))
  strikerBaseY,    \* the edge strikerBaseY lies on: white's or black's
  strikerY,        \* where the striker is: on an edge's baseline, or
                   \* "board" once a velocity has carried it away
  netlog,          \* history, kept by the specifications that start it:
                   \* who launched the strike in flight and the messages
                   \* the last step sent
  planner,         \* a call of CarromAI.calculateShot: inputs and output
  peer,            \* kept by the specification that starts it: the turn
                   \* state of the GameScene at the other end of the
                   \* connection and the messages in flight each way
  leaderboard      \* kept by the specification that starts it: the entries
                   \* stored under 'carrom_leaderboard' and the last call of
                   \* LeaderboardService.addEntry

vars == <<gameMode, myColor, scene, pocketed, currentPlayer, whiteScore,
          blackScore, queenPocketed, queenCovered, queenPocketedBy, needsCover,
          isStrikerMoving, isOpponentTurn, isAiming, turnResult, aiThinking,
          aiLaunching, gameOverData, resolved, unpocketed, connection,
          menuTimer, strikerBaseY, strikerY, netlog, planner, peer, leaderboard>>

----------------------------------------------------------------------------
(* Per-strike accumulator *)

EmptyTurnResult ==
  [pocketedOwn |-> FALSE, pocketedOpponent |-> FALSE, pocketedQueen |-> FALSE,
   pocketedStriker |-> FALSE, piecesThisTurn |-> <<>>]

RECURSIVE CountOf(_, _)
CountOf(seq, t) ==
  IF seq = <<>> THEN 0
  ELSE (IF Head(seq) = t THEN 1 ELSE 0) + CountOf(Tail(seq), t)

\* result.piecesThisTurn.filter(t => t === this.currentPlayer).length
OwnPiecesThisTurn(result, player) == CountOf(result.piecesThisTurn, player)

\* the accumulator part of pocketPiece(piece)
PocketIntoResult(tr, type, player) ==
  [tr EXCEPT
     !.piecesThisTurn = Append(@, type),
     !.pocketedQueen = IF type = "queen" THEN TRUE ELSE @,
     !.pocketedOwn = IF type # "queen" /\ type = player THEN TRUE ELSE @,
     !.pocketedOpponent = IF type # "queen" /\ type # player THEN TRUE ELSE @]

\* the pieces of a set in pieces[] order
RECURSIVE InOrder(_)
InOrder(S) ==
  IF S = {} THEN <<>>
  ELSE LET m == CHOOSE x \in S : \A y \in S : x <= y
       IN <<m>> \o InOrder(S \ {m})

RECURSIVE PocketAll(_, _, _)
PocketAll(tr, seq, player) ==
  IF seq = <<>> THEN tr
  ELSE PocketAll(PocketIntoResult(tr, PieceType(Head(seq)), player), Tail(seq), player)

----------------------------------------------------------------------------
(* Turn outcome resolver.  g is the match state the resolver reads and     *)
(* writes: [pocketed, currentPlayer, whiteScore, blackScore, queenPocketed,*)
(* queenCovered, queenPocketedBy, needsCover].                             *)

MatchState ==
  [pocketed |-> pocketed, currentPlayer |-> currentPlayer,
   whiteScore |-> whiteScore, blackScore |-> blackScore,
   queenPocketed |-> queenPocketed, queenCovered |-> queenCovered,
   queenPocketedBy |-> queenPocketedBy, needsCover |-> needsCover]

OnBoard(pk, color) == {i \in Pieces : PieceType(i) = color /\ ~pk[i]}
PocketedOf(pk, color) == {i \in Pieces : PieceType(i) = color /\ pk[i]}

AddScore(g, player, n) ==
  IF player = "white" THEN [g EXCEPT !.whiteScore = @ + n]
  ELSE [g EXCEPT !.blackScore = @ + n]

\* variant: the foul costs no point
DeductNothing(score) == score

\* variant: the deduction is not floored
DeductBelowZero(score) == score - FoulPenalty

\* Math.max(0, score - 1)
Deduct(score) == Max(0, score - FoulPenalty)

\* variant: the penalty puts back every pocketed piece of the colour
ReturnEveryPieceAsPenalty(g) ==
  LET found == PocketedOf(g.pocketed, g.currentPlayer)
  IN IF found = {} THEN g
     ELSE [g EXCEPT !.pocketed = [i \in Pieces |-> IF i \in found THEN FALSE ELSE @[i]],
                    !.whiteScore = IF g.currentPlayer = "white" THEN Deduct(@) ELSE @,
                    !.blackScore = IF g.currentPlayer = "black" THEN Deduct(@) ELSE @]

\* variant: the penalty looks for a pocketed piece of the opponent's colour
ReturnOpponentPieceAsPenalty(g) ==
  LET found == PocketedOf(g.pocketed, Other(g.currentPlayer))
  IN IF found = {} THEN g
     ELSE LET p == CHOOSE x \in found : \A y \in found : x <= y
          IN [g EXCEPT !.pocketed[p] = FALSE,
                       !.whiteScore = IF g.currentPlayer = "white" THEN Deduct(@) ELSE @,
                       !.blackScore = IF g.currentPlayer = "black" THEN Deduct(@) ELSE @]

ReturnPieceAsPenalty(g) ==
  LET found == PocketedOf(g.pocketed, g.currentPlayer)
  IN IF found = {} THEN g
     ELSE LET p == CHOOSE x \in found : \A y \in found : x <= y
          IN [g EXCEPT !.pocketed[p] = FALSE,
                       !.whiteScore = IF g.currentPlayer = "white" THEN Deduct(@) ELSE @,
                       !.blackScore = IF g.currentPlayer = "black" THEN Deduct(@) ELSE @]

\* variant: the queen's pocketed flag is left set
QueenStaysPocketed(g) == g

ReturnQueenToCenter(g) == [g EXCEPT !.pocketed[Queen] = FALSE]

\* variant: the bonus is added and the queen is not marked covered
CoverQueenLeftUncovered(g) ==
  AddScore([g EXCEPT !.needsCover = FALSE], g.currentPlayer, QueenBonus)

\* the queen is covered: the flags and the bonus
CoverQueen(g) ==
  AddScore([g EXCEPT !.queenCovered = TRUE, !.needsCover = FALSE],
           g.currentPlayer, QueenBonus)

\* the queen was pocketed in this strike and is not covered yet
QueenJustPocketed(g, result) == result.pocketedQueen /\ ~g.queenCovered

\* variant: needsCover is not raised
PocketQueenWithoutCover(g) ==
  [g EXCEPT !.queenPocketed = TRUE,
            !.queenPocketedBy = g.currentPlayer]

\* the queen is recorded as pocketed by the current player
PocketQueen(g) ==
  [g EXCEPT !.queenPocketed = TRUE,
            !.queenPocketedBy = g.currentPlayer,
            !.needsCover = TRUE]

\* variant: the guard does not test needsCover
CoverPendingByOwnerOnly(g) == g.queenPocketedBy = g.currentPlayer

\* the current player pocketed the queen in an earlier strike and owes a cover
CoverPending(g) == g.needsCover /\ g.queenPocketedBy = g.currentPlayer

\* variant: needsCover is left set
FailedCoverKeepsFlag(g) ==
  [ReturnQueenToCenter(g) EXCEPT !.queenPocketed = FALSE,
                                 !.queenPocketedBy = Null]

\* failed to cover: the queen returns and its state is cleared
FailedCover(g) ==
  [ReturnQueenToCenter(g) EXCEPT !.queenPocketed = FALSE,
                                 !.queenPocketedBy = Null,
                                 !.needsCover = FALSE]

\* variant: one point whatever the count
ScoreOnePoint(g, count) == AddScore(g, g.currentPlayer, 1)

\* the points of a strike that pocketed own pieces only
ScoreOwnPieces(g, count) == AddScore(g, g.currentPlayer, count)

\* variant: an opponent piece pocketed with an own piece is overlooked
PocketedOwn(result) == result.pocketedOwn

\* result.pocketedOwn && !result.pocketedOpponent
PocketedOnlyOwn(result) == result.pocketedOwn /\ ~result.pocketedOpponent

\* the branches of handleTurnEnd that add the queen bonus to a score: the
\* player whose score it is, or none
BonusTo(g, result) ==
  LET own == OwnPiecesThisTurn(result, g.currentPlayer)
  IN IF (QueenJustPocketed(g, result) \/ CoverPending(g)) /\ own > 0
     THEN <<IF g.currentPlayer = "white" THEN "white" ELSE "black">>
     ELSE <<>>

\* the if / else-if chain of handleTurnEnd; yields the new match state and
\* continuesTurn
ApplyRules(g, result) ==
  LET own == OwnPiecesThisTurn(result, g.currentPlayer)
  IN IF QueenJustPocketed(g, result)
     THEN IF own > 0 THEN [g |-> CoverQueen(PocketQueen(g)), continuesTurn |-> TRUE]
          ELSE [g |-> PocketQueen(g), continuesTurn |-> TRUE]
     ELSE IF CoverPending(g)
     THEN IF own > 0 THEN [g |-> CoverQueen(g), continuesTurn |-> TRUE]
          ELSE [g |-> FailedCover(g), continuesTurn |-> FALSE]
     ELSE IF ~result.pocketedStriker
     THEN IF PocketedOnlyOwn(result)
          THEN [g |-> ScoreOwnPieces(g, own), continuesTurn |-> TRUE]
          ELSE [g |-> g, continuesTurn |-> FALSE]
     ELSE [g |-> g, continuesTurn |-> FALSE]

\* variant: the queen's state is not consulted
CheckWinIgnoringQueen(g) ==
  IF OnBoard(g.pocketed, "white") = {} THEN "white"
  ELSE IF OnBoard(g.pocketed, "black") = {} THEN "black"
  ELSE Null

\* variant: only the player who made the strike can win
CheckWinOfCurrentPlayer(g) ==
  IF OnBoard(g.pocketed, g.currentPlayer) = {} /\ (g.queenCovered \/ ~g.queenPocketed)
  THEN g.currentPlayer
  ELSE Null

\* the winner checkWinCondition ends the game for, or Null
CheckWinCondition(g) ==
  IF OnBoard(g.pocketed, "white") = {} /\ (g.queenCovered \/ ~g.queenPocketed)
  THEN (IF g.queenPocketed /\ ~g.queenCovered THEN Null ELSE "white")
  ELSE IF OnBoard(g.pocketed, "black") = {} /\ (g.queenCovered \/ ~g.queenPocketed)
  THEN (IF g.queenPocketed /\ ~g.queenCovered THEN Null ELSE "black")
  ELSE Null

\* variant: the loser's pieces left are not added
EndGameWithoutBonus(g, winner) ==
  [winner |-> winner, whiteScore |-> g.whiteScore, blackScore |-> g.blackScore]

\* the data endGame hands to the GameOver scene
EndGame(g, winner) ==
  LET loserPiecesLeft == Cardinality(OnBoard(g.pocketed, Other(winner)))
  IN [winner |-> winner,
      whiteScore |-> IF winner = "white" THEN g.whiteScore + loserPiecesLeft ELSE g.whiteScore,
      blackScore |-> IF winner = "black" THEN g.blackScore + loserPiecesLeft ELSE g.blackScore]

\* variant: a pocketed striker does not force the switch
SwitchesUnlessContinues(continuesTurn, result) == ~continuesTurn

\* whether handleTurnEnd calls switchTurn (it is reached only without a win)
SwitchesTurn(continuesTurn, result) == ~continuesTurn \/ result.pocketedStriker

\* handleTurnEnd up to the win check: the new match state, continuesTurn
\* and the winner
HandleTurnEnd(g, result) ==
  LET g1 == IF result.pocketedStriker THEN ReturnPieceAsPenalty(g) ELSE g
      r == ApplyRules(g1, result)
  IN [g |-> r.g, continuesTurn |-> r.continuesTurn, winner |-> CheckWinCondition(r.g),
      bonusTo |-> BonusTo(g1, result)]

----------------------------------------------------------------------------
(* Turn state machine *)

\* variant: every switchTurn against the CPU schedules an AI turn
SwitchTurnSchedulingAlways(cp) ==
  LET nextPlayer == Other(cp)
  IN [currentPlayer |-> nextPlayer,
      isOpponentTurn |-> nextPlayer # myColor,
      ai |-> IF gameMode = "cpu" THEN 1 ELSE 0]

\* switchTurn from current player cp: the next player, the flag and the AI
\* turns scheduled (the 'turn-end' message it sends leaves the scene)
SwitchTurn(cp) ==
  LET nextPlayer == Other(cp)
  IN [currentPlayer |-> nextPlayer,
      isOpponentTurn |-> nextPlayer # myColor,
      ai |-> IF gameMode = "cpu" /\ nextPlayer # myColor THEN 1 ELSE 0]

\* variant: the striker is always put on white's edge
StrikerKeptOnWhiteEdge(cp) == "white"

\* updateStrikerPosition: the edge whose baseline the striker is put on
UpdateStrikerPosition(cp) == IF cp = "white" THEN "white" ELSE "black"

\* NetworkManager.send: the message leaves only over an open connection
Send(message) ==
  IF gameMode # "cpu" /\ connection = "open" THEN <<message>> ELSE <<>>

\* GameMessage: its type, nextPlayer, and whether strikerX, velocityX and
\* velocityY are numbers
ShotMessage == [type |-> "shot", nextPlayer |-> Null, numbers |-> TRUE]
TurnEndMessage(nextPlayer) ==
  [type |-> "turn-end", nextPlayer |-> nextPlayer, numbers |-> FALSE]

\* the history after a step that launches or resolves a strike
Logged(by, sent) ==
  IF netlog = <<>> THEN <<>>
  ELSE <<[strikeBy |-> by, sent |-> sent, received |-> <<>>]>>
\* the history after a step that sends nothing and leaves the strike alone
Keep ==
  IF netlog = <<>> THEN <<>>
  ELSE <<[netlog[1] EXCEPT !.sent = <<>>, !.received = <<>>]>>
\* the case of handleNetworkMessage's switch a message type falls in
SwitchCase(type) == IF type \in {"shot", "turn-end"} THEN type ELSE "none"
\* the history after a step that handles a message of the peer: the message,
\* with the case of the switch for its type
Received(by, message) ==
  IF netlog = <<>> THEN <<>>
  ELSE <<[strikeBy |-> by, sent |-> <<>>,
          received |-> <<[message EXCEPT !.type = SwitchCase(@)]>>]>>

\* the messages in flight after a step that sends: they join the queue to
\* the peer
Posted(sent) ==
  IF peer = <<>> THEN <<>>
  ELSE <<[peer[1] EXCEPT !.toPeer = @ \o sent]>>
\* one more strike is launched, on this end or on the other
Struck(p) ==
  IF p = <<>> THEN <<>>
  ELSE <<[p[1] EXCEPT !.strikes = @ + 1]>>
CanStrike == peer # <<>> => peer[1].strikes < MaxStrikes
\* the queue to the peer has room for the messages of a step
Room(sent) ==
  peer # <<>> => Len(peer[1].toPeer) + Len(sent) <= MaxInFlight
\* the connection delivers the message: any message where the peer is not
\* kept, else the first of the queue from the peer
Delivers(message) ==
  peer # <<>> =>
    peer[1].toLocal # <<>> /\ Head(peer[1].toLocal) = message
\* the messages in flight after the delivery
Taken ==
  IF peer = <<>> THEN <<>>
  ELSE <<[peer[1] EXCEPT !.toLocal = Tail(@)]>>

TypeOK ==
  /\ gameMode \in {"cpu", "multiplayer-host", "multiplayer-guest"}
  /\ myColor \in Colors
  /\ scene \in {"Game", "GameOver", "Menu"}
  /\ pocketed \in [Pieces -> BOOLEAN]
  /\ currentPlayer \in Colors \cup {"undefined"}
  /\ whiteScore \in 0..(RingPieces + QueenBonus)
  /\ blackScore \in 0..(RingPieces + QueenBonus)
  /\ queenPocketed \in BOOLEAN /\ queenCovered \in BOOLEAN /\ needsCover \in BOOLEAN
  /\ queenPocketedBy \in Colors \cup {Null, "undefined"}
  /\ isStrikerMoving \in BOOLEAN /\ isOpponentTurn \in BOOLEAN /\ isAiming \in BOOLEAN
  /\ Len(turnResult.piecesThisTurn) <= MaxPocketsPerStrike
  /\ aiThinking \in 0..MaxTimers /\ aiLaunching \in 0..MaxTimers
  /\ Len(resolved) <= 1
  /\ Len(unpocketed) <= 1
  /\ unpocketed # <<>> =>
       unpocketed[1] \subseteq Pieces /\ Cardinality(unpocketed[1]) <= 1
  /\ connection \in {"open", "closed"}
  /\ menuTimer \in 0..1
  /\ strikerBaseY \in Colors
  /\ strikerY \in Colors \cup {"board"}
  /\ Len(netlog) <= 1
  /\ Len(planner) <= 1
  /\ Len(peer) <= 1
  /\ Len(leaderboard) <= 1

InitMatch ==
  /\ scene = "Game"
  /\ pocketed = [i \in Pieces |-> FALSE]
  /\ currentPlayer = "white"
  /\ whiteScore = 0 /\ blackScore = 0
  /\ queenPocketed = FALSE /\ queenCovered = FALSE
  /\ queenPocketedBy = Null /\ needsCover = FALSE
  /\ isStrikerMoving = FALSE /\ isAiming = FALSE
  /\ turnResult = EmptyTurnResult
  /\ aiThinking = 0 /\ aiLaunching = 0
  /\ gameOverData = Null
  /\ resolved = <<>>
  /\ menuTimer = 0
  /\ strikerBaseY = "white" /\ strikerY = "white"

\* create() of a match against the CPU
Init ==
  /\ InitMatch
  /\ gameMode = "cpu"
  /\ myColor = "white"
  /\ isOpponentTurn = FALSE
  /\ unpocketed = <<>>
  /\ connection = "closed"
  /\ netlog = <<>>
  /\ planner = <<>>
  /\ peer = <<>>
  /\ leaderboard = <<>>

\* create() of a multiplayer match, as host or as guest
InitNet ==
  /\ InitMatch
  /\ gameMode \in {"multiplayer-host", "multiplayer-guest"}
  /\ myColor = (IF gameMode = "multiplayer-guest" THEN "black" ELSE "white")
  /\ isOpponentTurn = (gameMode = "multiplayer-guest")
  /\ unpocketed = <<>>
  /\ connection = "open"
  /\ netlog = <<>>
  /\ planner = <<>>
  /\ peer = <<>>
  /\ leaderboard = <<>>

matchVars == <<pocketed, currentPlayer, whiteScore, blackScore, queenPocketed,
               queenCovered, queenPocketedBy, needsCover>>
modeVars == <<gameMode, myColor>>
linkVars == <<connection, menuTimer>>
strikerVars == <<strikerBaseY, strikerY>>

\* pointerdown on the striker
PointerDown ==
  /\ scene = "Game"
  /\ ~(isStrikerMoving \/ isOpponentTurn)
  /\ ~isAiming
  /\ isAiming' = TRUE
  /\ UNCHANGED <<modeVars, matchVars, scene, isStrikerMoving, isOpponentTurn,
                 turnResult, aiThinking, aiLaunching, gameOverData>>
  /\ resolved' = <<>>
  /\ netlog' = Keep
  /\ UNCHANGED <<unpocketed, linkVars, strikerVars, planner, peer, leaderboard>>

\* pointerup: shoot(pointer) launches unless the drag is shorter than 10
PointerUp(launch) ==
  /\ scene = "Game"
  /\ isAiming
  /\ isAiming' = FALSE
  /\ IF launch
     THEN /\ isStrikerMoving' = TRUE
          /\ turnResult' = EmptyTurnResult
          /\ strikerY' = "board"
          /\ netlog' = Logged("local", Send(ShotMessage))
          /\ Room(Send(ShotMessage)) /\ CanStrike
          /\ peer' = Struck(Posted(Send(ShotMessage)))
     ELSE /\ UNCHANGED <<isStrikerMoving, turnResult, strikerY, peer>>
          /\ netlog' = Keep
  /\ resolved' = <<>>
  /\ UNCHANGED <<unpocketed, linkVars, strikerBaseY, planner, leaderboard>>
  /\ UNCHANGED <<modeVars, matchVars, scene, isOpponentTurn, aiThinking,
                 aiLaunching, gameOverData>>

\* checkPockets of one frame: pocketStriker if the striker is in a pocket
\* zone, then pocketPiece for every piece of P, in pieces[] order
CheckPockets(tr, strikerIn, P, player) ==
  PocketAll([tr EXCEPT !.pocketedStriker = IF strikerIn THEN TRUE ELSE @],
            InOrder(P), player)

\* One frame of update().  stopped: checkAllStopped() holds; strikerIn: the
\* striker is inside a pocket zone; P: the unpocketed pieces inside one.
\* The striker rests on the baseline unless a strike is in flight, and
\* handleTurnEnd puts it back there before checkPockets runs.
Update(stopped, strikerIn, P) ==
  /\ scene = "Game"
  /\ P \subseteq {i \in Pieces : ~pocketed[i]}
  /\ Cardinality(P) <= MaxPocketsPerFrame
  /\ Len(turnResult.piecesThisTurn) + Cardinality(P) <= MaxPocketsPerStrike
  /\ strikerIn => isStrikerMoving /\ ~stopped /\ ~turnResult.pocketedStriker
  /\ stopped => isStrikerMoving
  /\ stopped \/ strikerIn \/ P # {}
  /\ LET h == HandleTurnEnd(MatchState, turnResult)
         switch == SwitchesTurn(h.continuesTurn, turnResult)
         sw == SwitchTurn(h.g.currentPlayer)
         \* the match state handleTurnEnd leaves
         g == IF ~stopped THEN MatchState
              ELSE IF h.winner = Null /\ switch
              THEN [h.g EXCEPT !.currentPlayer = sw.currentPlayer]
              ELSE h.g
         ai == IF ~stopped \/ h.winner # Null THEN 0
               ELSE IF switch THEN sw.ai
               ELSE IF gameMode = "cpu" /\ g.currentPlayer # myColor THEN 1 ELSE 0
     IN /\ aiThinking + ai <= MaxTimers
        /\ pocketed' = [i \in Pieces |-> IF i \in P THEN TRUE ELSE g.pocketed[i]]
        /\ currentPlayer' = g.currentPlayer
        /\ whiteScore' = g.whiteScore
        /\ blackScore' = g.blackScore
        /\ queenPocketed' = g.queenPocketed
        /\ queenCovered' = g.queenCovered
        /\ queenPocketedBy' = g.queenPocketedBy
        /\ needsCover' = g.needsCover
        /\ isStrikerMoving' = IF stopped THEN FALSE ELSE isStrikerMoving
        /\ turnResult' = CheckPockets(turnResult, strikerIn, P, g.currentPlayer)
        /\ aiThinking' = aiThinking + ai
        /\ IF stopped /\ h.winner # Null
           THEN /\ scene' = "GameOver"
                /\ gameOverData' = EndGame(h.g, h.winner)
                /\ UNCHANGED isOpponentTurn
           ELSE /\ isOpponentTurn' = IF stopped /\ switch THEN sw.isOpponentTurn
                                     ELSE isOpponentTurn
                /\ UNCHANGED <<scene, gameOverData>>
        /\ IF unpocketed = <<>> \/ unpocketed = <<{}>>
           THEN unpocketed' \in
                  {unpocketed} \cup
                  (IF unpocketed = <<>> THEN {}
                   ELSE {<<{i}>> : i \in {j \in Pieces : pocketed[j] /\ ~g.pocketed[j]}})
           ELSE UNCHANGED unpocketed
        /\ IF stopped
           THEN resolved' = <<[before |-> MatchState, result |-> turnResult,
                               after |-> g, winner |-> h.winner,
                               bonusTo |-> h.bonusTo]>>
           ELSE resolved' = <<>>
        \* endGame disconnects before it starts the GameOver scene
        /\ connection' = IF stopped /\ h.winner # Null THEN "closed"
                          ELSE connection
        \* handleTurnEnd and pocketStriker put the striker on strikerBaseY,
        \* switchTurn moves strikerBaseY to the next player's edge
        /\ strikerBaseY' = IF stopped /\ h.winner = Null /\ switch
                            THEN UpdateStrikerPosition(sw.currentPlayer)
                            ELSE strikerBaseY
        /\ strikerY' = IF stopped THEN strikerBaseY'
                        ELSE IF strikerIn THEN strikerBaseY
                        ELSE strikerY
        /\ LET sent == IF stopped /\ h.winner = Null /\ switch
                       THEN Send(TurnEndMessage(sw.currentPlayer))
                       ELSE <<>>
           IN /\ netlog' = IF stopped THEN Logged("none", sent) ELSE Keep
              /\ Room(sent)
              /\ peer' = Posted(sent)
  /\ UNCHANGED <<modeVars, isAiming, aiLaunching, menuTimer, planner, leaderboard>>

\* the delayed call of scheduleAITurn fires: executeAITurn.  found: whether
\* calculateBestAIShot finds an unblocked shot.
ExecuteAITurn(found) ==
  /\ scene = "Game"
  /\ aiThinking > 0
  /\ LET aiPieces == OnBoard(pocketed, "black")
         queenOn == ~pocketed[Queen]
         targets == aiPieces \cup
                    (IF queenOn /\ ~queenCovered
                        /\ ~(needsCover /\ queenPocketedBy = "black")
                        /\ Cardinality(aiPieces) <= 3
                     THEN {Queen} ELSE {})
         pass == \/ aiPieces = {} /\ (~queenOn \/ queenCovered)
                 \/ (~found /\ aiPieces = {})
         sw == SwitchTurn(currentPlayer)
     IN /\ found => targets # {}
        /\ IF pass
           THEN /\ currentPlayer' = sw.currentPlayer
                /\ isOpponentTurn' = sw.isOpponentTurn
                /\ aiThinking' = aiThinking - 1 + sw.ai
                /\ strikerBaseY' = UpdateStrikerPosition(sw.currentPlayer)
                /\ strikerY' = strikerBaseY'
                /\ UNCHANGED aiLaunching
           ELSE /\ aiLaunching < MaxTimers
                /\ aiLaunching' = aiLaunching + 1
                /\ aiThinking' = aiThinking - 1
                /\ strikerY' = strikerBaseY
                /\ UNCHANGED <<currentPlayer, isOpponentTurn, strikerBaseY>>
  /\ UNCHANGED <<modeVars, scene, pocketed, whiteScore, blackScore,
                 queenPocketed, queenCovered, queenPocketedBy, needsCover,
                 isStrikerMoving, isAiming, turnResult, gameOverData>>
  /\ resolved' = <<>>
  /\ netlog' = Keep
  /\ UNCHANGED <<unpocketed, linkVars, planner, peer, leaderboard>>

\* the 300 ms delayed call of executeAITurn / executeRandomAIShot fires
AILaunch ==
  /\ scene = "Game"
  /\ aiLaunching > 0
  /\ aiLaunching' = aiLaunching - 1
  /\ isStrikerMoving' = TRUE
  /\ turnResult' = EmptyTurnResult
  /\ strikerY' = "board"
  /\ resolved' = <<>>
  /\ netlog' = Logged("local", <<>>)
  /\ UNCHANGED <<unpocketed, linkVars, strikerBaseY, planner, peer, leaderboard>>
  /\ UNCHANGED <<modeVars, matchVars, scene, isOpponentTurn, isAiming,
                 aiThinking, gameOverData>>

\* the sets of at most k elements of S
RECURSIVE UpTo(_, _)
UpTo(S, k) ==
  IF k = 0 THEN {{}}
  ELSE LET smaller == UpTo(S, k - 1)
       IN smaller \cup {T \cup {x} : T \in smaller, x \in S}

PocketSets == UpTo(Pieces, MaxPocketsPerFrame)

Frame == \E stopped \in BOOLEAN, strikerIn \in BOOLEAN, P \in PocketSets :
           Update(stopped, strikerIn, P)

Next ==
  \/ PointerDown
  \/ \E launch \in BOOLEAN : PointerUp(launch)
  \/ Frame
  \/ \E found \in BOOLEAN : ExecuteAITurn(found)
  \/ AILaunch

Spec == Init /\ [][Next]_vars

\* the match against the CPU with the history of cleared pocketed flags kept
InitReturns ==
  /\ InitMatch
  /\ gameMode = "cpu"
  /\ myColor = "white"
  /\ isOpponentTurn = FALSE
  /\ unpocketed = <<{}>>
  /\ connection = "closed"
  /\ netlog = <<>>
  /\ planner = <<>>
  /\ peer = <<>>
  /\ leaderboard = <<>>

SpecReturns == InitReturns /\ [][Next]_vars

----------------------------------------------------------------------------
(* Remote play: the messages and events the peer connection delivers *)

\* variant: a 'shot' is still delivered and handled after endGame
RecvShotAfterEndGame ==
  /\ gameMode # "cpu"
  /\ isStrikerMoving' = TRUE
  /\ turnResult' = EmptyTurnResult
  /\ strikerY' = "board"
  /\ resolved' = <<>>
  /\ netlog' = Received("remote", ShotMessage)
  /\ Delivers(ShotMessage)
  /\ peer' = Taken
  /\ UNCHANGED <<unpocketed, linkVars, strikerBaseY, planner, leaderboard>>
  /\ UNCHANGED <<modeVars, matchVars, scene, isOpponentTurn, isAiming,
                 aiThinking, aiLaunching, gameOverData>>

\* handleNetworkMessage, case 'shot': executeRemoteShot
RecvShot ==
  /\ scene = "Game"
  /\ connection = "open"
  /\ isStrikerMoving' = TRUE
  /\ turnResult' = EmptyTurnResult
  /\ strikerY' = "board"
  /\ resolved' = <<>>
  /\ netlog' = Received("remote", ShotMessage)
  /\ Delivers(ShotMessage)
  /\ peer' = Taken
  /\ UNCHANGED <<unpocketed, linkVars, strikerBaseY, planner, leaderboard>>
  /\ UNCHANGED <<modeVars, matchVars, scene, isOpponentTurn, isAiming,
                 aiThinking, aiLaunching, gameOverData>>

\* handleNetworkMessage, case 'turn-end'
RecvTurnEnd(nextPlayer) ==
  /\ scene = "Game"
  /\ connection = "open"
  /\ currentPlayer' = nextPlayer
  /\ strikerBaseY' = UpdateStrikerPosition(nextPlayer)
  /\ strikerY' = strikerBaseY'
  /\ isOpponentTurn' = (nextPlayer # myColor)
  /\ UNCHANGED <<modeVars, scene, pocketed, whiteScore, blackScore,
                 queenPocketed, queenCovered, queenPocketedBy, needsCover,
                 isStrikerMoving, isAiming, turnResult, aiThinking,
                 aiLaunching, gameOverData>>
  /\ resolved' = <<>>
  /\ netlog' = IF netlog = <<>> THEN <<>>
                ELSE Received(netlog[1].strikeBy, TurnEndMessage(nextPlayer))
  /\ Delivers(TurnEndMessage(nextPlayer))
  /\ peer' = Taken
  /\ UNCHANGED <<unpocketed, linkVars, planner, leaderboard>>

NextNet ==
  \/ PointerDown
  \/ \E launch \in BOOLEAN : PointerUp(launch)
  \/ Frame
  \/ RecvShot
  \/ \E nextPlayer \in Colors : RecvTurnEnd(nextPlayer)

SpecNet == InitNet /\ [][NextNet]_vars

\* a match against the CPU, or a multiplayer match joined as guest
InitAll == Init \/ (InitNet /\ gameMode = "multiplayer-guest")
NextAll == Next \/ RecvShot \/ \E nextPlayer \in Colors : RecvTurnEnd(nextPlayer)
SpecAll == InitAll /\ [][NextAll]_vars

\* the types of GameMessage that handleNetworkMessage has no case for, and
\* one that GameMessage does not have
OtherTypes == {"sync", "ready", "piece-pocketed", "striker-reset", "unknown"}

\* handleNetworkMessage of a message of a type without a case
RecvOther(message) ==
  /\ scene = "Game"
  /\ connection = "open"
  /\ message.type \in OtherTypes
  /\ resolved' = <<>>
  /\ netlog' = IF netlog = <<>> THEN <<>>
                ELSE Received(netlog[1].strikeBy, message)
  /\ UNCHANGED <<modeVars, matchVars, scene, isStrikerMoving, isOpponentTurn,
                 isAiming, turnResult, aiThinking, aiLaunching, gameOverData,
                 unpocketed, linkVars, strikerVars, planner, peer, leaderboard>>

\* handleNetworkMessage, case 'shot', of a message without its numbers:
\* executeRemoteShot(undefined, undefined, undefined)
RecvShotUndefined ==
  /\ scene = "Game"
  /\ connection = "open"
  /\ isStrikerMoving' = TRUE
  /\ turnResult' = EmptyTurnResult
  /\ strikerY' = "board"
  /\ resolved' = <<>>
  /\ netlog' = Received("remote", [ShotMessage EXCEPT !.numbers = FALSE])
  /\ UNCHANGED <<unpocketed, linkVars, strikerBaseY, planner, peer, leaderboard>>
  /\ UNCHANGED <<modeVars, matchVars, scene, isOpponentTurn, isAiming,
                 aiThinking, aiLaunching, gameOverData>>

\* the 'close' event of the connection: the handler of setupNetworkHandlers
Disconnect ==
  /\ scene = "Game"
  /\ connection = "open"
  /\ connection' = "closed"
  /\ menuTimer' = 1
  /\ resolved' = <<>>
  /\ netlog' = Keep
  /\ UNCHANGED <<modeVars, matchVars, scene, isStrikerMoving, isOpponentTurn,
                 isAiming, turnResult, aiThinking, aiLaunching, gameOverData,
                 unpocketed, strikerVars, planner, peer, leaderboard>>

\* the 2000 ms delayed call of the disconnect handler fires
MenuTimer ==
  /\ scene = "Game"
  /\ menuTimer > 0
  /\ menuTimer' = menuTimer - 1
  /\ scene' = "Menu"
  /\ resolved' = <<>>
  /\ netlog' = Keep
  /\ UNCHANGED <<modeVars, matchVars, isStrikerMoving, isOpponentTurn,
                 isAiming, turnResult, aiThinking, aiLaunching, gameOverData,
                 unpocketed, connection, strikerVars, planner, peer, leaderboard>>

\* a multiplayer match joined as guest, with the history of strikes and
\* messages kept
InitLink ==
  /\ InitMatch
  /\ gameMode = "multiplayer-guest"
  /\ myColor = "black"
  /\ isOpponentTurn = TRUE
  /\ unpocketed = <<>>
  /\ connection = "open"
  /\ netlog = <<[strikeBy |-> "none", sent |-> <<>>, received |-> <<>>]>>
  /\ planner = <<>>
  /\ peer = <<>>
  /\ leaderboard = <<>>

\* what the peer connection can deliver: any message, and its close
NextLink ==
  \/ PointerDown
  \/ \E launch \in BOOLEAN : PointerUp(launch)
  \/ Frame
  \/ RecvShot
  \/ \E nextPlayer \in Colors \cup {"undefined"} : RecvTurnEnd(nextPlayer)
  \/ \E t \in OtherTypes :
       RecvOther([type |-> t, nextPlayer |-> Null, numbers |-> FALSE])
  \/ RecvShotUndefined
  \/ Disconnect
  \/ MenuTimer

SpecLink == InitLink /\ [][NextLink]_vars

(***************************************************************************)
(* Both ends of the connection.  The other GameScene runs the same code;   *)
(* of its state the model keeps what the messages read and write: its      *)
(* currentPlayer, isOpponentTurn and isStrikerMoving.  Its physics and its *)
(* accumulator are inputs: a strike it resolves either passes the turn     *)
(* (switchTurn) or continues it.  The connection delivers in order.        *)
(***************************************************************************)
PeerColor == Other(myColor)

\* create() of a multiplayer match on both ends
InitPair ==
  /\ InitMatch
  /\ gameMode \in {"multiplayer-host", "multiplayer-guest"}
  /\ myColor = (IF gameMode = "multiplayer-guest" THEN "black" ELSE "white")
  /\ isOpponentTurn = (gameMode = "multiplayer-guest")
  /\ unpocketed = <<>>
  /\ connection = "open"
  /\ netlog = <<>>
  /\ planner = <<>>
  /\ leaderboard = <<>>
  /\ peer = <<[currentPlayer |-> "white",
               isOpponentTurn |-> (gameMode # "multiplayer-guest"),
               isStrikerMoving |-> FALSE,
               toPeer |-> <<>>,
               toLocal |-> <<>>,
               strikes |-> 0]>>

\* a step of the other end leaves this end alone
PeerStep ==
  /\ peer # <<>>
  /\ scene = "Game"
  /\ connection = "open"
  /\ resolved' = <<>>
  /\ netlog' = Keep
  /\ UNCHANGED <<modeVars, matchVars, scene, isStrikerMoving, isOpponentTurn,
                 isAiming, turnResult, aiThinking, aiLaunching, gameOverData,
                 unpocketed, linkVars, strikerVars, planner, leaderboard>>

\* the other player drags and releases: setupInput and shoot on the peer
PeerShoot ==
  /\ PeerStep
  /\ ~(peer[1].isStrikerMoving \/ peer[1].isOpponentTurn)
  /\ Len(peer[1].toLocal) < MaxInFlight /\ CanStrike
  /\ peer' = Struck(<<[peer[1] EXCEPT !.isStrikerMoving = TRUE,
                                      !.toLocal = Append(@, ShotMessage)]>>)

\* handleNetworkMessage on the peer
PeerHandle ==
  /\ PeerStep
  /\ peer[1].toPeer # <<>>
  /\ LET message == Head(peer[1].toPeer)
     IN peer' =
          <<IF message.type = "shot"
            THEN [peer[1] EXCEPT !.isStrikerMoving = TRUE,
                                 !.toPeer = Tail(@)]
            ELSE [peer[1] EXCEPT
                    !.currentPlayer = message.nextPlayer,
                    !.isOpponentTurn = (message.nextPlayer # PeerColor),
                    !.toPeer = Tail(@)]>>

\* the frame of update() on the peer in which all bodies have stopped:
\* handleTurnEnd passes the turn or continues it
PeerUpdate(switch) ==
  /\ PeerStep
  /\ peer[1].isStrikerMoving
  /\ switch => Len(peer[1].toLocal) < MaxInFlight
  /\ LET nextPlayer == Other(peer[1].currentPlayer)
     IN peer' =
          <<IF switch
            THEN [peer[1] EXCEPT
                    !.isStrikerMoving = FALSE,
                    !.currentPlayer = nextPlayer,
                    !.isOpponentTurn = (nextPlayer # PeerColor),
                    !.toLocal = Append(@, TurnEndMessage(nextPlayer))]
            ELSE [peer[1] EXCEPT !.isStrikerMoving = FALSE]>>

NextPair ==
  \/ PointerDown
  \/ \E launch \in BOOLEAN : PointerUp(launch)
  \/ Frame
  \/ RecvShot
  \/ \E nextPlayer \in Colors : RecvTurnEnd(nextPlayer)
  \/ PeerShoot
  \/ PeerHandle
  \/ \E switch \in BOOLEAN : PeerUpdate(switch)

SpecPair == InitPair /\ [][NextPair]_vars

----------------------------------------------------------------------------
(* The shot planner: CarromAI.calculateShot (src/unnamed/part_000).        *)
(* Numbers are fixed-point integers: Math.random() draws and the powers of *)
(* the evaluators in thousandths, scores in hundredths, angles in          *)
(* millionths of a radian, and the planner's powers, which are products of *)
(* a power and a factor in ten-thousandths, in ten-millionths.  The        *)
(* geometry of the evaluators is an input: the distance the striker has to *)
(* travel, the angle of the shot, the score and whether the path is        *)
(* blocked.                                                                *)

BOARD_SIZE == 400
\* 1, 0.3 and 0.5 as powers of the planner
FullPower == 10000000
LeastPower == 3000000
FallbackPower == 5000000
\* evaluateShot returns null below this score
LeastScore == 2000

Min(a, b) == IF a <= b THEN a ELSE b

\* Math.atan2 on the directions the striker positions of the inputs give
Atan2(dy, dx) ==
  CASE dx = 0 /\ dy = 0 -> 0
    [] dx > 0 /\ dy = 0 -> 0
    [] dx < 0 /\ dy = 0 -> 3141593
    [] dx = 0 /\ dy > 0 -> 1570796
    [] dx = 0 /\ dy < 0 -> -1570796
    [] dx > 0 /\ dy = dx -> 785398
    [] dx > 0 /\ dy = -dx -> -785398
    [] dx < 0 /\ dy = -dx -> 2356194
    [] dx < 0 /\ dy = dx -> -2356194

\* evaluateShot: null for a blocked path or a score under 20, else the shot
\* with power Math.min(1, distance / (BOARD_SIZE * 0.6))
EvaluateShot(e) ==
  IF e.blocked \/ e.score < LeastScore THEN <<>>
  ELSE <<[angle |-> e.angle,
          power |-> Min(1000, (e.distance * 1000) \div ((BOARD_SIZE * 6) \div 10)),
          score |-> e.score]>>

\* evaluateDefensiveShot: null for a piece further than 80 from its nearest
\* pocket or a blocked path
EvaluateDefensiveShot(e) ==
  IF e.minDist > 80 \/ e.blocked THEN <<>>
  ELSE <<[angle |-> e.angle,
          power |-> Min(800, (e.distance * 1000) \div ((BOARD_SIZE * 5) \div 10)),
          score |-> 3000 + (80 - e.minDist) * 50]>>

\* the shots an evaluator returns for a sequence of evaluations, in order
RECURSIVE ShotsOf(_, _)
ShotsOf(evals, queen) ==
  IF evals = <<>> THEN <<>>
  ELSE LET shot == EvaluateShot(Head(evals))
           scaled == IF queen /\ shot # <<>>
                     THEN <<[shot[1] EXCEPT !.score = (@ * 8) \div 10]>>
                     ELSE shot
       IN scaled \o ShotsOf(Tail(evals), queen)

RECURSIVE DefensiveShotsOf(_)
DefensiveShotsOf(evals) ==
  IF evals = <<>> THEN <<>>
  ELSE EvaluateDefensiveShot(Head(evals)) \o DefensiveShotsOf(Tail(evals))

\* possibleShots before the sort: the shots at own pieces, those at the
\* queen if it is on the board and at most 3 own pieces are left, and the
\* defensive shots if fewer than 3 shots were found
PossibleShots(in) ==
  LET own == ShotsOf(in.own, FALSE)
      withQueen == IF in.queen # <<>> /\ in.myPieces <= 3
                   THEN own \o ShotsOf(in.queen[1], TRUE) ELSE own
  IN IF Len(withQueen) < 3
     THEN withQueen \o DefensiveShotsOf(in.opponent) ELSE withQueen

\* possibleShots.sort((a, b) => b.score - a.score): descending, stable
RECURSIVE Insert(_, _)
Insert(shot, sorted) ==
  IF sorted = <<>> THEN <<shot>>
  ELSE IF Head(sorted).score >= shot.score
       THEN <<Head(sorted)>> \o Insert(shot, Tail(sorted))
       ELSE <<shot>> \o sorted

RECURSIVE Sort(_)
Sort(shots) ==
  IF shots = <<>> THEN <<>>
  ELSE Insert(shots[Len(shots)], Sort(SubSeq(shots, 1, Len(shots) - 1)))

\* variant: easy picks among all the shots
EasyIndexAmongAll(n, r) == (r * n) \div 1000

\* Math.floor(Math.random() * Math.min(n, Math.ceil(n / 2)))
EasyIndex(n, r) == (r * Min(n, (n + 1) \div 2)) \div 1000

\* Math.floor(Math.random() * Math.min(n, 3))
MediumIndex(n, r) == (r * Min(n, 3)) \div 1000

\* the index selected, from 0
SelectedIndex(difficulty, n, r) ==
  CASE difficulty = "easy" -> EasyIndex(n, r)
    [] difficulty = "hard" -> 0
    [] OTHER -> MediumIndex(n, r)

\* selectedShot.angle += (Math.random() - 0.5) * 0.3 | 0.05 | 0.15
Jitter(difficulty, r) ==
  (r - 500) * (CASE difficulty = "easy" -> 300
                 [] difficulty = "hard" -> 50
                 [] OTHER -> 150)

\* variant: every difficulty varies the power as easy does
PowerFactorOfEasy(difficulty, r) == 7000 + r * 4

\* the factor of selectedShot.power *= ..., in ten-thousandths
PowerFactor(difficulty, r) ==
  CASE difficulty = "easy" -> 7000 + r * 4
    [] difficulty = "hard" -> 9500 + r
    [] OTHER -> 8500 + r * 2

\* variant: the power is returned as computed
Unclamped(power) == power

\* Math.max(0.3, Math.min(1, power))
Clamp(power) == Max(LeastPower, Min(FullPower, power))

\* variant: the fallback aims from the centre at the striker, at no power
FallbackAwayFromCentre(in) ==
  [angle |-> Atan2(in.strikerPos.y - in.centre.y, in.strikerPos.x - in.centre.x),
   power |-> 0]

\* no shot found: aim at the centre of the board with power 0.5
FallbackShot(in) ==
  [angle |-> Atan2(in.centre.y - in.strikerPos.y, in.centre.x - in.strikerPos.x),
   power |-> FallbackPower]

\* calculateShot, with random the values its calls of Math.random() return
\* (for the index, the angle and the power): the sorted shots, the index
\* selected (-1: none) and the { angle, power } returned
CalculateShot(in, random) ==
  LET shots == Sort(PossibleShots(in))
      n == Len(shots)
      index == SelectedIndex(in.difficulty, n, random[1])
      selectedShot == shots[index + 1]
  IN IF n = 0
     THEN [shots |-> shots, index |-> -1, random |-> random,
           shot |-> FallbackShot(in)]
     ELSE [shots |-> shots, index |-> index, random |-> random,
           shot |-> [angle |-> selectedShot.angle
                                 + Jitter(in.difficulty, random[2]),
                     power |-> Clamp(selectedShot.power
                                       * PowerFactor(in.difficulty, random[3]))]]

\* Inputs of the planner.  Evaluations of shots at own pieces: a short shot,
\* a long one, and one that scores under 20.
OwnEvaluations ==
  {[distance |-> 48, angle |-> 100000, score |-> 9000, blocked |-> FALSE],
   [distance |-> 300, angle |-> -1200000, score |-> 5000, blocked |-> FALSE],
   [distance |-> 120, angle |-> 700000, score |-> 1500, blocked |-> FALSE]}
\* evaluations of shots at the queen: a clear path and a blocked one
QueenEvaluations ==
  {[distance |-> 180, angle |-> -400000, score |-> 8000, blocked |-> FALSE],
   [distance |-> 90, angle |-> 900000, score |-> 9500, blocked |-> TRUE]}
\* evaluations of opponent pieces: one near a pocket, one far from every pocket
OpponentEvaluations ==
  {[distance |-> 60, angle |-> 2500000, minDist |-> 40, blocked |-> FALSE],
   [distance |-> 150, angle |-> -300000, minDist |-> 120, blocked |-> FALSE]}
Difficulties == {"easy", "medium", "hard"}
\* Math.random() is in [0, 1): the values drawn for index, angle and power,
\* the last two at their extremes
Randoms ==
  {<<r1, r2, r3>> : r1 \in {0, 500, 999}, r2 \in {0, 999}, r3 \in {0, 999}}
\* the centre given to the constructor and the striker on either baseline
Centre == [x |-> 300, y |-> 300]
StrikerPositions ==
  {[x |-> Centre.x, y |-> Centre.y + (BOARD_SIZE \div 2 - 35)],
   [x |-> Centre.x + (BOARD_SIZE \div 2 - 35), y |-> Centre.y - (BOARD_SIZE \div 2 - 35)]}
\* numbers of pockets and of own pieces: each own piece is evaluated once for
\* each pocket
Shapes ==
  {sh \in (1..2) \X (0..MaxShots) : sh[1] * sh[2] <= MaxShots}
InputsOf(sh) ==
  {[difficulty |-> d, centre |-> Centre, strikerPos |-> sp, numPockets |-> sh[1],
    myPieces |-> sh[2], own |-> own, queen |-> q, opponent |-> opp] :
     d \in Difficulties, sp \in StrikerPositions,
     own \in [1..(sh[1] * sh[2]) -> OwnEvaluations],
     q \in {<<>>} \cup {<<qe>> : qe \in [1..sh[1] -> QueenEvaluations]},
     opp \in {<<>>} \cup {<<e>> : e \in OpponentEvaluations}}
Inputs == UNION {InputsOf(sh) : sh \in Shapes}

\* a call of calculateShot on some inputs, before it is made
InitAI ==
  /\ InitMatch
  /\ gameMode = "cpu"
  /\ myColor = "white"
  /\ isOpponentTurn = FALSE
  /\ unpocketed = <<>>
  /\ connection = "closed"
  /\ netlog = <<>>
  /\ peer = <<>>
  /\ leaderboard = <<>>
  /\ planner \in {<<[in |-> in, out |-> <<>>]>> : in \in Inputs}

\* the call returns
Plan(random) ==
  /\ planner # <<>>
  /\ planner[1].out = <<>>
  /\ planner' = <<[planner[1] EXCEPT
                     !.out = <<CalculateShot(planner[1].in, random)>>]>>
  /\ UNCHANGED <<modeVars, matchVars, scene, isStrikerMoving, isOpponentTurn,
                 isAiming, turnResult, aiThinking, aiLaunching, gameOverData,
                 resolved, unpocketed, linkVars, strikerVars, netlog, peer, leaderboard>>

NextAI == \E random \in Randoms : Plan(random)

SpecAI == InitAI /\ [][NextAI]_vars

(***************************************************************************)
(* The line of sight of a shot: CarromAI.checkObstacles as evaluateShot    *)
(* calls it.  Positions are integer points and the paths have an integer   *)
(* length, so that the projection and the perpendicular distance compare   *)
(* exactly: with d = to - from and p = piece - from, dot = (p . d) /       *)
(* distance and perpDist = |p x d| / distance.                             *)
(***************************************************************************)
PIECE_RADIUS == 12
STRIKER_RADIUS == 16
\* the margin checkObstacles adds to the two radii
ObstacleMargin == 5

\* Math.sqrt on the squares the paths of the inputs give
Sqrt(n) == CHOOSE r \in 0..BOARD_SIZE : r * r = n

\* the pieces evaluateShot hands to checkObstacles
Obstacles(allPieces) ==
  SelectSeq(allPieces, LAMBDA p : ~p.target /\ ~p.pocketed)

\* the projection of the piece falls between from and to
Between(dotD, distance) ==
  /\ dotD > STRIKER_RADIUS * distance
  /\ dotD < (distance - PIECE_RADIUS) * distance

CheckObstacles(from, to, pieces) ==
  LET dx == to.x - from.x
      dy == to.y - from.y
      distance == Sqrt(dx * dx + dy * dy)
  IN IF distance = 0 THEN FALSE
     ELSE \E i \in 1..Len(pieces) :
            LET px == pieces[i].x - from.x
                py == pieces[i].y - from.y
                dotD == px * dx + py * dy
                cross == px * dy - py * dx
                limit == (STRIKER_RADIUS + PIECE_RADIUS + ObstacleMargin)
                           * distance
            IN Between(dotD, distance) /\ cross * cross < limit * limit

\* evaluateShot from its hit point on: the score and the angle are inputs
EvaluateShotAt(in) ==
  LET dx == in.hitPoint.x - in.strikerPos.x
      dy == in.hitPoint.y - in.strikerPos.y
  IN EvaluateShot(
       [distance |-> Sqrt(dx * dx + dy * dy),
        angle |-> in.angle,
        score |-> in.score,
        blocked |-> CheckObstacles(in.strikerPos, in.hitPoint,
                                   Obstacles(in.allPieces))])

\* the striker on its baseline
StrikerAt == [x |-> 200, y |-> 340]
\* the paths: towards the far side, slanted to either side, and none
Paths == {<<0, -100>>, <<-60, -80>>, <<60, -80>>, <<0, 0>>}
\* where the other piece is, along the path and across it
Along == {-5, 10, 16, 17, 50, 87, 88, 95, 100, 110}
Across == {-34, -33, -32, 0, 25, 32, 33, 34}
\* the point a given distance along the path and across it
PointOn(d, a, c) ==
  IF d = <<0, 0>> THEN [x |-> StrikerAt.x + a, y |-> StrikerAt.y + c]
  ELSE [x |-> StrikerAt.x + (a * d[1] - c * d[2]) \div 100,
        y |-> StrikerAt.y + (a * d[2] + c * d[1]) \div 100]
\* the two bodies do not overlap
Apart(p, q, gap) ==
  (p.x - q.x) * (p.x - q.x) + (p.y - q.y) * (p.y - q.y) >= gap * gap
\* the target piece sits a piece and a striker radius behind the hit point
TargetOn(d) ==
  IF d = <<0, 0>> THEN PointOn(d, 0, -(PIECE_RADIUS + STRIKER_RADIUS))
  ELSE PointOn(d, 100 + PIECE_RADIUS + STRIKER_RADIUS, 0)
SightInputs ==
  {[strikerPos |-> StrikerAt,
    hitPoint |-> [x |-> StrikerAt.x + d[1], y |-> StrikerAt.y + d[2]],
    angle |-> 0,
    score |-> score,
    allPieces |->
      <<[x |-> TargetOn(d).x, y |-> TargetOn(d).y,
         pocketed |-> FALSE, target |-> TRUE],
        [x |-> PointOn(d, a, c).x, y |-> PointOn(d, a, c).y,
         pocketed |-> gone, target |-> FALSE]>>] :
     d \in Paths, a \in Along, c \in Across, gone \in BOOLEAN,
     score \in {1500, 9000}}

InitSight ==
  /\ InitMatch
  /\ gameMode = "cpu"
  /\ myColor = "white"
  /\ isOpponentTurn = FALSE
  /\ unpocketed = <<>>
  /\ connection = "closed"
  /\ netlog = <<>>
  /\ peer = <<>>
  /\ leaderboard = <<>>
  /\ planner \in
       {<<[in |-> in, out |-> <<>>]>> :
          in \in {i \in SightInputs :
                   /\ Apart(i.allPieces[2], i.strikerPos,
                            PIECE_RADIUS + STRIKER_RADIUS)
                   /\ Apart(i.allPieces[2], i.allPieces[1],
                            2 * PIECE_RADIUS)}}

\* the evaluation returns
Evaluate ==
  /\ planner # <<>>
  /\ planner[1].out = <<>>
  /\ planner' = <<[planner[1] EXCEPT
                     !.out = <<[shot |-> EvaluateShotAt(planner[1].in)]>>]>>
  /\ UNCHANGED <<modeVars, matchVars, scene, isStrikerMoving, isOpponentTurn,
                 isAiming, turnResult, aiThinking, aiLaunching, gameOverData,
                 resolved, unpocketed, linkVars, strikerVars, netlog, peer, leaderboard>>

NextSight == Evaluate

SpecSight == InitSight /\ [][NextSight]_vars

(***************************************************************************)
(* The leaderboard: LeaderboardService.addEntry (src/unnamed/part_001).    *)
(* A name is the sequence of its characters.  Of an entry the model keeps  *)
(* the name, the score and the wins; the date and the mode take no part in *)
(* the order or the rank.  localStorage reads and writes succeed.          *)
(***************************************************************************)
MAX_ENTRIES == 10
\* the length substring(0, 12) cuts a name to
NameLimit == 12

\* String.toLowerCase, on the characters of the names of the inputs
LowerCase(c) ==
  CASE c = "B" -> "b"
    [] c = "Z" -> "z"
    [] c = "P" -> "p"
    [] OTHER -> c
ToLowerCase(name) == [i \in 1..Len(name) |-> LowerCase(name[i])]

\* String.trim
RECURSIVE TrimStart(_)
TrimStart(name) ==
  IF name # <<>> /\ Head(name) = " " THEN TrimStart(Tail(name)) ELSE name
RECURSIVE TrimEnd(_)
TrimEnd(name) ==
  IF name # <<>> /\ name[Len(name)] = " "
  THEN TrimEnd(SubSeq(name, 1, Len(name) - 1))
  ELSE name
Trim(name) == TrimEnd(TrimStart(name))

\* String.substring(0, n)
Substring(name, n) == SubSeq(name, 1, Min(n, Len(name)))

\* the name of an entry submitted without one
Player == <<"P", "l", "a", "y", "e", "r">>

NewEntry(name, score) ==
  LET cut == Substring(Trim(name), NameLimit)
  IN [name |-> IF cut = <<>> THEN Player ELSE cut, score |-> score, wins |-> 1]

\* findIndex(e => e.name.toLowerCase() === name.toLowerCase()), from 0
FindIndex(entries, name) ==
  LET found == {i \in 1..Len(entries) :
                  ToLowerCase(entries[i].name) = ToLowerCase(name)}
  IN IF found = {} THEN -1
     ELSE (CHOOSE i \in found : \A j \in found : i <= j) - 1

\* the comparator of the sort: by score, then by wins, both descending
Compare(a, b) ==
  IF b.score # a.score THEN b.score - a.score ELSE b.wins - a.wins

\* Array.prototype.sort with the comparator: a stable sort
RECURSIVE InsertEntry(_, _)
InsertEntry(sorted, e) ==
  IF sorted = <<>> THEN <<e>>
  ELSE IF Compare(Head(sorted), e) <= 0
  THEN <<Head(sorted)>> \o InsertEntry(Tail(sorted), e)
  ELSE <<e>> \o sorted
RECURSIVE SortEntries(_)
SortEntries(entries) ==
  IF entries = <<>> THEN <<>>
  ELSE InsertEntry(SortEntries(SubSeq(entries, 1, Len(entries) - 1)),
                   entries[Len(entries)])

\* addEntry: the entries it stores and the rank it returns
AddEntry(entries, name, score) ==
  LET newEntry == NewEntry(name, score)
      existingIndex == FindIndex(entries, newEntry.name)
      updated ==
        IF existingIndex >= 0
        THEN [entries EXCEPT ![existingIndex + 1] =
                [@ EXCEPT !.wins = @ + 1, !.score = Max(@, score)]]
        ELSE Append(entries, newEntry)
      sorted == SortEntries(updated)
      trimmed == SubSeq(sorted, 1, Min(MAX_ENTRIES, Len(sorted)))
  IN [stored |-> trimmed, rank |-> FindIndex(trimmed, newEntry.name) + 1]

\* Stored leaderboards: k entries under different names, the first hi of
\* them with the higher of two scores.
Digits == <<"0", "1", "2", "3", "4", "5", "6", "7", "8", "9">>
StoredName(i) == IF i = 1 THEN <<"B", "o", "b">> ELSE <<"p", Digits[i]>>
HigherScore == 5
LowerScore == 2
Stored(k, hi) ==
  [i \in 1..k |->
     [name |-> StoredName(i),
      score |-> IF i <= hi THEN HigherScore ELSE LowerScore,
      wins |-> 1]]
Boards == {Stored(k, hi) : k \in 0..MAX_ENTRIES, hi \in 0..MAX_ENTRIES}
\* names submitted: one stored already, the same in other letter case, one
\* with blanks around, none, blanks only, and one of 13 characters
SubmittedNames ==
  {<<"B", "o", "b">>, <<"b", "o", "b">>, <<" ", "Z", "e", "d", " ">>,
   <<>>, <<" ">>,
   <<"l", "o", "n", "g", "l", "o", "n", "g", "l", "o", "n", "g", "x">>}
SubmittedScores == {0, 2, 3, 5, 7}

InitBoard ==
  /\ InitMatch
  /\ gameMode = "cpu"
  /\ myColor = "white"
  /\ isOpponentTurn = FALSE
  /\ unpocketed = <<>>
  /\ connection = "closed"
  /\ netlog = <<>>
  /\ planner = <<>>
  /\ peer = <<>>
  /\ leaderboard \in {<<[entries |-> b, call |-> <<>>]>> : b \in Boards}

\* saveScore: the call of addEntry returns
SaveScore(name, score) ==
  /\ leaderboard # <<>>
  /\ leaderboard[1].call = <<>>
  /\ LET r == AddEntry(leaderboard[1].entries, name, score)
     IN leaderboard' =
          <<[entries |-> r.stored,
             call |-> <<[name |-> name, score |-> score, rank |-> r.rank]>>]>>
  /\ UNCHANGED <<modeVars, matchVars, scene, isStrikerMoving, isOpponentTurn,
                 isAiming, turnResult, aiThinking, aiLaunching, gameOverData,
                 resolved, unpocketed, linkVars, strikerVars, netlog, planner,
                 peer>>

NextBoard ==
  \E name \in SubmittedNames, score \in SubmittedScores : SaveScore(name, score)

SpecBoard == InitBoard /\ [][NextBoard]_vars

----------------------------------------------------------------------------
(* Properties of a strike resolution.  R is the resolution the last step   *)
(* made: the match state before it, the accumulator it consumed, the match *)
(* state handleTurnEnd left and the winner it declared.                    *)

Resolved == resolved # <<>>
R == resolved[1]
Striker == R.before.currentPlayer
ScoreOf(g, player) == IF player = "white" THEN g.whiteScore ELSE g.blackScore
OwnCount == OwnPiecesThisTurn(R.result, Striker)
\* the pieces of the striking player the resolution put back on the board
Returned == {i \in Pieces : PieceType(i) = Striker
                            /\ R.before.pocketed[i] /\ ~R.after.pocketed[i]}
\* after the resolution the turn is with player p: the flag and the AI's
\* timers agree with it
TurnIsWith(p) ==
  /\ currentPlayer = p
  /\ isOpponentTurn = (p # myColor)
  /\ aiThinking = (IF p # myColor THEN 1 ELSE 0)
  /\ aiLaunching = 0

\* C1: a strike that pocketed the striker leaves the current player's score
\* at max(0, score before - 1), whatever else was pocketed.
C1_FoulCostsOnePoint ==
  Resolved /\ R.result.pocketedStriker =>
    ScoreOf(R.after, Striker) = Max(0, ScoreOf(R.before, Striker) - 1)

C3_FoulPassesTurn ==
  Resolved /\ R.result.pocketedStriker /\ R.winner = Null =>
    /\ R.after.currentPlayer = Other(Striker)
    /\ TurnIsWith(Other(Striker))

C3_Witness ==
  /\ Resolved /\ R.result.pocketedStriker /\ R.winner = Null
  /\ R.result.pocketedQueen /\ R.result.pocketedOwn
  /\ currentPlayer = Other(Striker)

\* C4: a strike that pocketed only pieces of the current player's colour
\* (at least one; no striker, no queen, no cover pending) adds exactly their
\* number to that player's score, leaves the opponent's score, and unless it
\* wins the match the same player strikes again.
OwnOnlyStrike ==
  /\ Resolved
  /\ R.result.piecesThisTurn # <<>>
  /\ \A k \in DOMAIN R.result.piecesThisTurn : R.result.piecesThisTurn[k] = Striker
  /\ ~R.result.pocketedStriker /\ ~R.result.pocketedQueen
  /\ ~R.before.needsCover

C4_OwnPiecesScore ==
  OwnOnlyStrike =>
    /\ ScoreOf(R.after, Striker) =
         ScoreOf(R.before, Striker) + Len(R.result.piecesThisTurn)
    /\ ScoreOf(R.after, Other(Striker)) = ScoreOf(R.before, Other(Striker))
    /\ R.winner = Null => R.after.currentPlayer = Striker /\ TurnIsWith(Striker)

C4_Witness ==
  /\ OwnOnlyStrike /\ R.winner = Null
  /\ ScoreOf(R.after, Striker) = ScoreOf(R.before, Striker) + 1
  /\ currentPlayer = Striker

\* C5 as claimed: a strike that pocketed the queen (not covered before) and
\* none of the current player's pieces leaves the queen pocketed-uncovered
\* and owned by the current player, needsCover true, both scores unchanged,
\* and the same player strikes again.
QueenAloneStrike ==
  /\ Resolved /\ R.result.pocketedQueen /\ ~R.before.queenCovered
  /\ OwnCount = 0

QueenOwedBy(g, player) ==
  /\ g.queenPocketed /\ g.queenPocketedBy = player
  /\ ~g.queenCovered /\ g.needsCover

C6_CoverAddsBonus ==
  Resolved /\ ~R.before.queenCovered /\ R.after.queenCovered =>
    /\ R.after.pocketed[Queen] /\ R.after.queenPocketed
    /\ ~R.after.needsCover
    /\ ScoreOf(R.after, Striker) = ScoreOf(R.before, Striker) + QueenBonus

\* C7 as claimed: when the player who owes the cover resolves a strike that
\* pocketed none of that player's pieces, the queen is back on the board, its
\* state is cleared, no bonus is awarded and the turn passes to the opponent.
FailedCoverStrike ==
  /\ Resolved /\ R.before.needsCover /\ R.before.queenPocketedBy = Striker
  /\ OwnCount = 0

QueenCleared(g) ==
  /\ ~g.pocketed[Queen] /\ ~g.queenPocketed /\ g.queenPocketedBy = Null
  /\ ~g.needsCover /\ ~g.queenCovered

NoGain ==
  /\ ScoreOf(R.after, Striker) <= ScoreOf(R.before, Striker)
  /\ ScoreOf(R.after, Other(Striker)) = ScoreOf(R.before, Other(Striker))

C8_OneStrikeGrace ==
  Resolved /\ R.before.needsCover => ~R.after.needsCover

\* C9: once the queen is covered it stays covered and pocketed and needsCover
\* stays false, in every later step: resolution, penalty or network message.
C9_CoverIsPermanent ==
  [][queenCovered \/ queenCovered' =>
       queenCovered' /\ ~needsCover' /\ pocketed'[Queen] /\ queenPocketed']_vars

C9_Witness ==
  /\ Resolved /\ R.before.queenCovered /\ R.result.pocketedStriker
  /\ R.before.queenPocketedBy = Striker /\ OwnCount = 0
  /\ queenCovered /\ pocketed[Queen]

\* C10: needsCover is true only while the queen is pocketed and uncovered:
\* queenPocketed, not queenCovered, an owner recorded, the piece pocketed.
C10_NeedsCoverMeansUncovered ==
  needsCover =>
    /\ queenPocketed /\ ~queenCovered
    /\ queenPocketedBy \in Colors
    /\ pocketed[Queen]

C10_Witness ==
  /\ needsCover /\ queenPocketedBy # currentPlayer /\ ~isStrikerMoving

----------------------------------------------------------------------------
(* Properties of the win check and of the end of the match *)

\* the queen is pocketed and not covered
QueenUncovered(g) == g.queenPocketed /\ ~g.queenCovered
\* every piece of the colour is pocketed
AllPocketed(g, color) == OnBoard(g.pocketed, color) = {}

\* C11: no resolution declares a winner while queenPocketed is true and
\* queenCovered is false: with the queen in that state the match goes on,
\* even for a player with no piece left on the board.
C11_NoWinWhileQueenUncovered ==
  Resolved /\ QueenUncovered(R.after) =>
    R.winner = Null /\ scene = "Game"

C11_Witness ==
  /\ Resolved /\ QueenUncovered(R.after)
  /\ \E c \in Colors : AllPocketed(R.after, c)
  /\ scene = "Game"

\* C12: a resolution declares a winner only when all of the winner's pieces
\* are pocketed and the queen is pocketed and covered.
C12_WinNeedsCoveredQueen ==
  Resolved /\ R.winner # Null =>
    /\ AllPocketed(R.after, R.winner)
    /\ R.after.pocketed[Queen] /\ R.after.queenPocketed /\ R.after.queenCovered

\* C13 as claimed: a strike in which the current player pocketed an opponent
\* piece adds nothing to that player's score and passes the turn to the
\* opponent, whatever else was pocketed.
OpponentPieceStrike ==
  Resolved /\ CountOf(R.result.piecesThisTurn, Other(Striker)) > 0

C13_OpponentPieceEndsTurn ==
  OpponentPieceStrike =>
    /\ ScoreOf(R.after, Striker) <= ScoreOf(R.before, Striker)
    /\ R.after.currentPlayer = Other(Striker)

\* the strike falls under a queen rule: it pocketed the queen while the queen
\* was not covered, or the current player owed the cover
QueenInvolved ==
  \/ R.result.pocketedQueen /\ ~R.before.queenCovered
  \/ R.before.needsCover /\ R.before.queenPocketedBy = Striker

\* C13 as amended: such a strike, when no queen rule applies to it, adds
\* nothing to the current player's score and, unless the win check ends the
\* match, passes the turn to the opponent.
C13_OpponentPieceEndsTurnNoQueen ==
  OpponentPieceStrike /\ ~QueenInvolved =>
    /\ ScoreOf(R.after, Striker) <= ScoreOf(R.before, Striker)
    /\ R.winner = Null =>
         R.after.currentPlayer = Other(Striker) /\ TurnIsWith(Other(Striker))

C13_Witness ==
  /\ OpponentPieceStrike /\ ~QueenInvolved /\ R.winner = Null
  /\ R.result.pocketedOwn /\ ~R.result.pocketedStriker
  /\ ScoreOf(R.after, Striker) = ScoreOf(R.before, Striker)
  /\ currentPlayer = Other(Striker)

C15_FinalScores ==
  Resolved /\ R.winner # Null =>
    LET loser == Other(R.winner)
    IN /\ scene = "GameOver"
       /\ gameOverData.winner = R.winner
       /\ ScoreOf(gameOverData, R.winner) =
            ScoreOf(R.after, R.winner) + Cardinality(OnBoard(R.after.pocketed, loser))
       /\ ScoreOf(gameOverData, loser) = ScoreOf(R.after, loser)

C15_Witness ==
  /\ Resolved /\ R.winner # Null
  /\ scene = "GameOver"
  /\ OnBoard(R.after.pocketed, Other(R.winner)) # {}
  /\ ScoreOf(R.after, Other(R.winner)) > 0
  /\ ScoreOf(gameOverData, R.winner) > ScoreOf(R.after, R.winner)

----------------------------------------------------------------------------
(* Properties of the pieces *)

\* the pieces of a colour in play
PiecesOf(color) == {i \in Pieces : PieceType(i) = color}
\* on board + pocketed of every colour is the number of its pieces in play
CountIsConstant ==
  \A c \in Colors :
    Cardinality(OnBoard(pocketed, c)) + Cardinality(PocketedOf(pocketed, c))
      = Cardinality(PiecesOf(c))

\* C16 as claimed: for each colour the pieces on the board plus the pieces
\* pocketed are, throughout the match, the pieces of the colour created at
\* set-up, of which there are 18.
C16_EighteenPerColour ==
  CountIsConstant /\ \A c \in Colors : Cardinality(CreatedOf(c)) = 18

\* C16 as amended: the same, with 9 pieces of each colour created at set-up.
C16_NinePerColour ==
  CountIsConstant /\ \A c \in Colors : Cardinality(CreatedOf(c)) = 9

C16_Witness ==
  /\ Resolved /\ Returned # {}
  /\ \E c \in Colors : OnBoard(pocketed, c) # {} /\ PocketedOf(pocketed, c) # {}

\* the flags the step clears
Cleared == {i \in Pieces : pocketed[i] /\ ~pocketed'[i]}
\* piece i was put back by the resolution: as the penalty of a pocketed
\* striker (a piece of the striking player) or as the queen of a failed cover
PutBack(i) ==
  /\ Resolved
  /\ \/ R.result.pocketedStriker /\ i \in Returned
     \/ i = Queen /\ FailedCoverStrike

\* C17 as claimed: a pocketed flag is cleared only by the penalty return of a
\* piece of the fouling player or by the failed-cover return of the queen,
\* and no piece has its flag cleared twice in a match.
C17_ClearedOnceByReturn ==
  [][\A i \in Cleared : PutBack(i)' /\ i \notin unpocketed[1]]_vars

\* C17 as amended: a pocketed flag is cleared only by the penalty return of a
\* piece of the fouling player or by the failed-cover return of the queen.
C17_ClearedByReturn ==
  [][\A i \in Cleared : PutBack(i)']_vars

C17_Witness ==
  /\ Resolved /\ FailedCoverStrike /\ ~pocketed[Queen]
  /\ \E i \in unpocketed[1] : i # Queen /\ pocketed[i]

----------------------------------------------------------------------------
(* Properties of the scores *)

\* the resolution covered the queen
CoveredNow == ~R.before.queenCovered /\ R.after.queenCovered

\* C18: both scores are non-negative in every state, and a resolution of a
\* strike that pocketed the striker, made at score 0, takes nothing from the
\* score: it is 0 afterwards (the queen bonus, if that resolution covers the
\* queen, is added to 0).
C18_ScoresNonNegative ==
  /\ whiteScore >= 0 /\ blackScore >= 0
  /\ scene = "GameOver" => gameOverData.whiteScore >= 0 /\ gameOverData.blackScore >= 0
  /\ Resolved /\ R.result.pocketedStriker /\ ScoreOf(R.before, Striker) = 0 =>
       ScoreOf(R.after, Striker) = (IF CoveredNow THEN QueenBonus ELSE 0)

C18_Witness ==
  /\ Resolved /\ R.result.pocketedStriker /\ ScoreOf(R.before, Striker) = 0
  /\ Returned # {}
  /\ ScoreOf(R.after, Striker) = 0
  /\ whiteScore + blackScore > 0

----------------------------------------------------------------------------
(* Properties of the strike life cycle and of remote play *)

\* the step launches a strike (by the local player, the AI or the peer): it
\* starts the motion or empties the accumulator, which only a launch does
Launched ==
  /\ isStrikerMoving' /\ turnResult' = EmptyTurnResult
  /\ ~isStrikerMoving \/ turnResult # EmptyTurnResult
\* a message of the peer is handled
Receive == RecvShot \/ \E nextPlayer \in Colors : RecvTurnEnd(nextPlayer)

\* C19: the resolver runs once per launched strike: a resolution consumes a
\* strike in flight and ends it (update() runs it only when checkAllStopped
\* holds), and a strike is launched only when none is in flight, so that no
\* launched strike is dropped without its own resolution.
C19_OneResolutionPerStrike ==
  [][/\ Resolved' => isStrikerMoving /\ ~isStrikerMoving'
     /\ Launched => ~isStrikerMoving]_vars

\* C20: a message handled while a strike is in flight changes neither
\* currentPlayer nor the accumulator of that strike.
C20_NoMessageAppliedInFlight ==
  [][Receive /\ isStrikerMoving => UNCHANGED <<currentPlayer, turnResult>>]_vars

----------------------------------------------------------------------------
(* Properties of the peer link, over the history of strikes and messages *)

StrikeBy == netlog[1].strikeBy
Sent == netlog[1].sent
ReceivedTurnEnd ==
  netlog[1].received # <<>> /\ netlog[1].received[1].type = "turn-end"

\* C21: a strike launched by the peer is not resolved by this side: while it
\* is in flight no step runs handleTurnEnd or sends a message, and
\* currentPlayer changes only by a received 'turn-end'.
C21_RemoteStrikeNotResolvedLocally ==
  [][StrikeBy = "remote" /\ isStrikerMoving =>
       /\ ~Resolved'
       /\ Sent' = <<>>
       /\ currentPlayer' # currentPlayer => ReceivedTurnEnd']_vars

\* the peer has disconnected (endGame, which also closes the connection,
\* leaves the scene GameOver instead)
PeerGone == connection = "closed" /\ scene # "GameOver"

\* C22: once the peer has disconnected the match is aborted: no strike is
\* launched or resolved, no score or queen state changes and no winner is
\* declared.
C22_DisconnectAborts ==
  [][PeerGone =>
       /\ ~Launched
       /\ ~Resolved'
       /\ UNCHANGED <<whiteScore, blackScore, queenPocketed, queenCovered,
                      queenPocketedBy, needsCover>>
       /\ scene' # "GameOver"]_vars

\* a message as the GameMessage type declares its 'shot' and 'turn-end'
WellFormed(message) ==
  \/ message.type = "shot" /\ message.numbers
  \/ message.type = "turn-end" /\ message.nextPlayer \in Colors
\* the step handled a message that is not a well-formed 'shot' or 'turn-end'
HandledMalformed ==
  netlog'[1].received # <<>> /\ ~WellFormed(netlog'[1].received[1])

\* C23: a handled message that is not a well-formed 'shot' or 'turn-end'
\* changes nothing: turn, scores, queen state, accumulator, striker and
\* strike-in-flight flag stay as they were.
C23_MalformedIgnored ==
  [][HandledMalformed =>
       UNCHANGED <<currentPlayer, isOpponentTurn, whiteScore, blackScore,
                   queenPocketed, queenCovered, queenPocketedBy, needsCover,
                   turnResult, strikerBaseY, strikerY, isStrikerMoving>>]_vars

----------------------------------------------------------------------------
(* Properties of the end of the match and of the striker's place *)

\* C24: once endGame has started the GameOver scene nothing happens to the
\* match: no strike is launched or resolved and currentPlayer, the scores
\* and the queen state keep their values.
C24_MatchOverTerminal ==
  [][scene = "GameOver" =>
       /\ ~Launched
       /\ ~Resolved'
       /\ UNCHANGED <<scene, currentPlayer, whiteScore, blackScore,
                      queenPocketed, queenCovered, queenPocketedBy,
                      needsCover>>]_vars
\* endGame has just ended a multiplayer match and closed the connection
C24_Witness ==
  scene = "GameOver" /\ Resolved /\ gameMode # "cpu" /\ connection = "closed"

\* C25: while the match runs and no strike is in flight, the striker rests
\* on the baseline of the current player's edge.
C25_StrikerOnCurrentBaseline ==
  scene = "Game" /\ ~isStrikerMoving => strikerY = currentPlayer
\* a resolution has just passed the turn from white to black and the striker
\* waits on black's baseline
C25_Witness ==
  /\ scene = "Game" /\ ~isStrikerMoving
  /\ Resolved /\ Striker = "white" /\ currentPlayer = "black"
  /\ strikerY = "black"

----------------------------------------------------------------------------
(* Properties of the AI's turn *)

\* C26: in a match against the CPU the AI's turn ends only by the resolution
\* of a strike: the turn never goes back to the human player without one.
C26_AITurnEndsWithStrike ==
  [][gameMode = "cpu" /\ currentPlayer = "black" /\ currentPlayer' = "white"
       => Resolved']_vars

----------------------------------------------------------------------------
(* Properties of the shot planner *)

\* calculateShot has returned; its inputs and what it returned
Called == planner # <<>> /\ planner[1].out # <<>>
In == planner[1].in
Out == planner[1].out[1]

\* C27: calculateShot returns a shot for every input, and when no shot
\* survives evaluation the shot it returns aims from the striker at the
\* centre of the board with power 0.5.
C27_FallbackTowardsCentre ==
  Called =>
    /\ DOMAIN Out.shot = {"angle", "power"}
    /\ Out.shots = <<>> =>
         /\ Out.shot.angle = Atan2(In.centre.y - In.strikerPos.y,
                                   In.centre.x - In.strikerPos.x)
         /\ Out.shot.power = FallbackPower
\* every evaluation of an own and of an opponent piece returned null
C27_Witness ==
  /\ Called /\ Out.shots = <<>>
  /\ In.own # <<>> /\ In.opponent # <<>>
  /\ In.strikerPos.x # In.centre.x

\* the shot selected, as the evaluator computed it, and its power times the
\* factor of the difficulty, in ten-millionths
Selected == Out.shots[Out.index + 1]
ScaledPower == Selected.power * PowerFactor(In.difficulty, Out.random[3])

\* C28: the power calculateShot returns lies in [0.3, 1.0], for every
\* difficulty and every input.
C28_PowerWithinLimits ==
  Called => Out.shot.power >= 3000000 /\ Out.shot.power <= 10000000
\* a short shot whose scaled power is under 0.3 has been raised to 0.3
C28_Witness ==
  /\ Called /\ Out.index >= 0
  /\ ScaledPower < 3000000
  /\ Out.shot.power = 3000000

\* difficulty hard and exactly one shot found
HardSingleShot == Called /\ In.difficulty = "hard" /\ Len(Out.shots) = 1
AngleNearSelected ==
  /\ Out.shot.angle - Selected.angle <= 25000
  /\ Selected.angle - Out.shot.angle <= 25000

\* C29: on hard with a single shot, the angle returned is within 0.025 rad
\* of the shot's angle and the power returned is between 0.95 and 1.05
\* times the shot's computed power, whatever that power is.
C29_HardKeepsSingleShot ==
  HardSingleShot =>
    /\ AngleNearSelected
    /\ Out.shot.power >= 9500 * Selected.power
    /\ Out.shot.power <= 10500 * Selected.power

\* C29, amended: the power returned is at least 0.95 times the computed
\* power, and at most 1.05 times it unless it is the lower limit 0.3, which
\* is returned only for a computed power under 0.3 / 0.95.
C29_HardKeepsSingleShotAboveLimit ==
  HardSingleShot =>
    /\ AngleNearSelected
    /\ Out.shot.power >= 9500 * Selected.power
    /\ \/ Out.shot.power <= 10500 * Selected.power
       \/ Out.shot.power = 3000000 /\ 9500 * Selected.power < 3000000
\* a single shot on hard whose power is returned scaled, inside the limits
C29_Witness ==
  /\ HardSingleShot
  /\ Out.shot.power > 3000000 /\ Out.shot.power < 10000000
  /\ Out.shot.power # 10000 * Selected.power
  /\ Out.shot.angle # Selected.angle

\* C30: the shots are sorted by descending score and the one selected is the
\* first on hard, among the first 3 on medium and in the top half (index
\* below n / 2 rounded up) on easy, always inside the list.
C30_SelectsFromTop ==
  Called /\ Out.shots # <<>> =>
    LET n == Len(Out.shots)
    IN /\ \A i, j \in 1..n : i < j => Out.shots[i].score >= Out.shots[j].score
       /\ Out.index >= 0 /\ Out.index < n
       /\ In.difficulty = "hard" => Out.index = 0
       /\ In.difficulty = "medium" => Out.index < 3
       /\ In.difficulty = "easy" => 2 * Out.index < n
\* four shots of different scores found: easy has selected the second and
\* medium the third
C30_Witness ==
  /\ Called /\ Len(Out.shots) = 4
  /\ Out.shots[1].score > Out.shots[4].score
  /\ \/ In.difficulty = "easy" /\ Out.index = 1
     \/ In.difficulty = "medium" /\ Out.index = 2

\* C31: when the queen is on the board (in play, so not covered), every shot
\* at the queen that its evaluation returns is among the candidates, with
\* 0.8 of the evaluator's score.
C31_QueenIsCandidate ==
  Called /\ In.queen # <<>> =>
    \A k \in 1..Len(In.queen[1]) :
      LET e == In.queen[1][k]
      IN ~e.blocked /\ e.score >= LeastScore =>
           \E i \in 1..Len(Out.shots) :
             /\ Out.shots[i].angle = e.angle
             /\ Out.shots[i].score * 10 = e.score * 8

\* the other piece of the evaluation and where it is from the path
Obstacle == In.allPieces[2]
PathLength ==
  Sqrt((In.hitPoint.x - In.strikerPos.x) * (In.hitPoint.x - In.strikerPos.x)
       + (In.hitPoint.y - In.strikerPos.y) * (In.hitPoint.y - In.strikerPos.y))
AlongPath ==
  (Obstacle.x - In.strikerPos.x) * (In.hitPoint.x - In.strikerPos.x)
    + (Obstacle.y - In.strikerPos.y) * (In.hitPoint.y - In.strikerPos.y)
AcrossPath ==
  (Obstacle.x - In.strikerPos.x) * (In.hitPoint.y - In.strikerPos.y)
    - (Obstacle.y - In.strikerPos.y) * (In.hitPoint.x - In.strikerPos.x)
BlockingRadius == STRIKER_RADIUS + PIECE_RADIUS + ObstacleMargin

\* C32: when another unpocketed piece lies strictly between the striker and
\* the hit point, nearer to the straight path than the blocking radius
\* (striker radius + piece radius + margin), the evaluator returns null.
C32_ObstacleBlocks ==
  Called /\ "hitPoint" \in DOMAIN In /\ ~Obstacle.pocketed
    /\ AlongPath > 0 /\ AlongPath < PathLength * PathLength
    /\ AcrossPath * AcrossPath
         < BlockingRadius * BlockingRadius * PathLength * PathLength
    => Out.shot = <<>>

(***************************************************************************)
(* Properties of the accumulator, the launches and the scores over a match *)
(***************************************************************************)
\* C33: a piece becomes pocketed only during a strike in flight, in a frame
\* that does not run the resolver for it: the strike is still in flight after
\* the frame, so that the accumulator handleTurnEnd consumes holds the piece
\* and no reset at a launch drops it unconsumed.
C33_PocketedBeforeResolution ==
  [][\A i \in Pieces : ~pocketed[i] /\ pocketed'[i] => isStrikerMoving']_vars

\* no strike is in flight on either end and no message is in flight
Settled ==
  /\ peer # <<>>
  /\ scene = "Game"
  /\ ~isStrikerMoving /\ ~peer[1].isStrikerMoving
  /\ peer[1].toPeer = <<>> /\ peer[1].toLocal = <<>>

\* C34: once the strikes are resolved on both ends and every message is
\* delivered, the two ends hold the same currentPlayer and exactly one of
\* them has isOpponentTurn = false.
C34_PeersAgree ==
  Settled =>
    /\ currentPlayer = peer[1].currentPlayer
    /\ isOpponentTurn # peer[1].isOpponentTurn

\* shoot() launches on this end: the pointer is released and a 'shot' joins
\* the messages to the peer
LocalLaunch ==
  /\ isAiming /\ ~isAiming'
  /\ peer'[1].toPeer = Append(peer[1].toPeer, ShotMessage)

\* C35: a strike of the local player is launched only when it is the local
\* player's turn (currentPlayer = myColor, isOpponentTurn = false) and no
\* strike is in flight, whatever happened since the pointer went down.
C35_LaunchOnOwnTurn ==
  [][LocalLaunch =>
       currentPlayer = myColor /\ ~isOpponentTurn /\ ~isStrikerMoving]_vars

\* the delayed call that sets the AI's striker in motion fires
AILaunches == aiLaunching' = aiLaunching - 1

\* C36: against the CPU the AI's strike is launched only when currentPlayer
\* is black, no strike is in flight and the match is not over, and at most
\* one delayed call of the AI (executeAITurn or the launch) is pending.
C36_OneAIShotOnBlacksTurn ==
  [][/\ AILaunches =>
          currentPlayer = "black" /\ ~isStrikerMoving /\ scene = "Game"
     /\ aiThinking' + aiLaunching' <= 1]_vars
C36_Witness ==
  /\ gameMode = "cpu" /\ currentPlayer = "black"
  /\ isStrikerMoving /\ turnResult = EmptyTurnResult
  /\ aiThinking = 0 /\ aiLaunching = 0

\* the resolution of the last step added the queen bonus to a score
BonusAwarded == Resolved /\ R.bonusTo # <<>>

\* C37: the queen bonus is awarded at most once in a match, to the player
\* recorded in queenPocketedBy: an award finds the queen uncovered and leaves
\* it covered, its receiver is queenPocketedBy, its receiver's score rises by
\* the bonus, and a covered queen stays covered.
C37_QueenBonusOnce ==
  [][/\ BonusAwarded' =>
          /\ ~queenCovered /\ queenCovered'
          /\ R'.bonusTo[1] = queenPocketedBy'
          /\ ScoreOf(R'.after, R'.bonusTo[1])
               >= ScoreOf(R'.before, R'.bonusTo[1]) - FoulPenalty + QueenBonus
     /\ queenCovered => queenCovered']_vars
C37_Witness == BonusAwarded /\ queenCovered

\* the most a player's score can be by the claim: the player's own pieces
\* now pocketed, and the bonus if the player covered the queen
ScoreLimit(player) ==
  Cardinality(PocketedOf(pocketed, player))
    + (IF queenCovered /\ queenPocketedBy = player THEN QueenBonus ELSE 0)

\* C38: while the match runs, each player's score is at most the number of
\* the player's own pieces that are pocketed, plus the queen bonus if the
\* player covered the queen.
C38_ScoreWithinPocketed ==
  scene = "Game" =>
    /\ whiteScore <= ScoreLimit("white")
    /\ blackScore <= ScoreLimit("black")
C38_Witness ==
  /\ scene = "Game" /\ resolved # <<>> /\ resolved[1].result.pocketedStriker
  /\ \E player \in Colors :
       /\ ScoreOf(resolved[1].before, player) > 0
       /\ ScoreOf(MatchState, player) = ScoreLimit(player)
       /\ PocketedOf(pocketed, player)
            # PocketedOf(resolved[1].before.pocketed, player)

----------------------------------------------------------------------------
(* Properties of the leaderboard *)

\* addEntry has returned; the call and the entries it stored
Added == leaderboard # <<>> /\ leaderboard[1].call # <<>>
Call == leaderboard[1].call[1]
StoredEntries == leaderboard[1].entries

\* C39: addEntry returns the rank of the submitted player in the stored
\* leaderboard: a number from 1 to 10, and the stored entry at that place
\* carries the submitted name, trimmed.
C39_RankOfSubmitted ==
  Added =>
    /\ Call.rank \in 1..MAX_ENTRIES
    /\ StoredEntries[Call.rank].name = Trim(Call.name)

====
